---------------------------- MODULE Spec2Model ----------------------------
(***************************************************************************)
(* Model of the PCA9532 LED dimmer driver (src/src/PCA9532.cpp, .h).       *)
(*                                                                         *)
(* The driver handle holds four saved LED-select bytes.  Every public      *)
(* method is one action; it runs its whole sequence of I2C transactions    *)
(* against a chip that is modelled as a register file, and leaves the      *)
(* transactions it issued in `bus`.                                        *)
(***************************************************************************)
EXTENDS Integers, Sequences, FiniteSets

VARIABLES
    regs,            \* the chip's register file, address -> byte
    storedRegLs0,    \* PCA9532::_storedRegLs0
    storedRegLs1,    \* PCA9532::_storedRegLs1
    storedRegLs2,    \* PCA9532::_storedRegLs2
    storedRegLs3,    \* PCA9532::_storedRegLs3
    bus,             \* transactions issued by the most recent method call
    op,              \* the most recent method call: [name, args]
    trail,           \* the method calls so far: <<[name, ok], ...>>
    readAtOff,       \* bytes returned by the reads of the latest turnOff
    lsAtOff,         \* LS0..LS3 as they were when the latest turnOff began
    lsAtOffPrev,     \* lsAtOff as it was before the latest turnOff
    budget           \* method calls still to be made

vars == <<regs, storedRegLs0, storedRegLs1, storedRegLs2, storedRegLs3,
          bus, op, trail, readAtOff, lsAtOff, lsAtOffPrev, budget>>

stored == <<storedRegLs0, storedRegLs1, storedRegLs2, storedRegLs3>>

---------------------------------------------------------------------------
(* Bounds of the model *)

MaxOps == 3        \* method calls per behaviour of Spec
MaxAvail == 2      \* largest value the transport's available() reports

---------------------------------------------------------------------------
(* Register map and state values, PCA9532.h *)

REG_INPUT0 == 0
REG_INPUT1 == 1
REG_PSC0 == 2
REG_PWM0 == 3
REG_PSC1 == 4
REG_PWM1 == 5
REG_LS0 == 6
REG_LS1 == 7
REG_LS2 == 8
REG_LS3 == 9

BIT_LS_LED0 == 0
BIT_LS_LED1 == 2
BIT_LS_LED2 == 4
BIT_LS_LED3 == 6

LS_STATE_OFF == 0
LS_STATE_ON == 1
LS_STATE_BLNK0 == 2
LS_STATE_BLNK1 == 3

BLINKING_PERIOD_1_S == 151

ByteBits == 8      \* width of uint8_t
IntBits == 16      \* width of int, to which the operands of << ~ & | promote

Byte == 0 .. (2^ByteBits - 1)
Regs == REG_INPUT0 .. REG_LS3
WritableRegs == REG_PSC0 .. REG_LS3
LsRegs == <<REG_LS0, REG_LS1, REG_LS2, REG_LS3>>
LsBits == {BIT_LS_LED0, BIT_LS_LED1, BIT_LS_LED2, BIT_LS_LED3}
LsStates == {LS_STATE_OFF, LS_STATE_ON, LS_STATE_BLNK0, LS_STATE_BLNK1}

---------------------------------------------------------------------------
(* C integer arithmetic *)

ToU8(x) == x % (2^ByteBits)

Shl(a, n) == (a * 2^n) % (2^IntBits)

BitNot(a) == (2^IntBits - 1) - a

RECURSIVE BitAnd(_, _)
BitAnd(a, b) ==
    IF a = 0 \/ b = 0 THEN 0
    ELSE (a % 2) * (b % 2) + 2 * BitAnd(a \div 2, b \div 2)

RECURSIVE BitOr(_, _)
BitOr(a, b) ==
    IF a = 0 THEN b
    ELSE IF b = 0 THEN a
    ELSE (IF a % 2 = 1 \/ b % 2 = 1 THEN 1 ELSE 0)
         + 2 * BitOr(a \div 2, b \div 2)

---------------------------------------------------------------------------
(* The bus and the chip *)

W(addr, data) == [kind |-> "w", addr |-> addr, data |-> data]
R(addr, avail, rx, ret) ==
    [kind |-> "r", addr |-> addr, avail |-> avail, rx |-> rx, ret |-> ret]

\* A bus state threaded through one method call: the chip's registers and
\* the transactions so far.
Start == [regs |-> regs, bus |-> <<>>]

\* The chip latches a data byte only at a writable register address.
ChipWrite(r, addr, data) ==
    IF addr \in WritableRegs THEN [r EXCEPT ![addr] = data] ELSE r

\* The byte the chip sends for the register the pointer was set to.
ChipRead(r, addr) == r[addr]

\* PCA9532::writeReg
writeRegAutoInc(s, registerAddress, data) ==
    [regs |-> ChipWrite(s.regs, registerAddress, data),
     bus  |-> Append(s.bus, W(registerAddress + 16, data))]

writeReg(s, registerAddress, data) ==
    [regs |-> ChipWrite(s.regs, registerAddress, data),
     bus  |-> Append(s.bus, W(registerAddress, data))]

\* PCA9532::readReg: the value returned, given what available() reports and
\* the byte read() would deliver.
readRegFfOnAny(avail, rx) == IF avail >= 1 THEN rx ELSE ToU8(-1)
readRegZero(avail, rx) == IF avail = 1 THEN rx ELSE 0

readReg(avail, rx) == IF avail = 1 THEN rx ELSE ToU8(-1)

\* The read transaction of readReg, logged on the bus.
readXfer(s, registerAddress, avail) ==
    LET rx == ChipRead(s.regs, registerAddress)
    IN  [regs |-> s.regs,
         bus  |-> Append(s.bus, R(registerAddress, avail, rx, readReg(avail, rx)))]

LastRet(s) == s.bus[Len(s.bus)].ret

AllReadsOk(b) == \A i \in 1 .. Len(b) : b[i].kind = "r" => b[i].avail = 1
Rets(b) == LET rd == SelectSeq(b, LAMBDA e : e.kind = "r")
           IN  [i \in 1 .. Len(rd) |-> rd[i].ret]
Writes(b) == SelectSeq(b, LAMBDA e : e.kind = "w")
LsOf(r) == [i \in 1 .. 4 |-> r[LsRegs[i]]]

---------------------------------------------------------------------------
(* Bookkeeping common to all method calls *)

Called(name, args, s) ==
    /\ regs' = s.regs
    /\ bus' = s.bus
    /\ op' = [name |-> name, args |-> args]
    /\ trail' = Append(trail, [name |-> name, ok |-> AllReadsOk(s.bus)])
    /\ budget' = budget - 1

KeepStored ==
    UNCHANGED <<storedRegLs0, storedRegLs1, storedRegLs2, storedRegLs3>>

KeepOff == UNCHANGED <<readAtOff, lsAtOff, lsAtOffPrev>>

---------------------------------------------------------------------------
(* Public methods.  Each takes the sets its arguments are drawn from. *)

\* PCA9532::turnOn
turnOn ==
    /\ budget > 0
    /\ LET s1 == writeReg(Start, REG_LS0, storedRegLs0)
           s2 == writeReg(s1, REG_LS1, storedRegLs1)
           s3 == writeReg(s2, REG_LS2, storedRegLs2)
           s4 == writeReg(s3, REG_LS3, storedRegLs3)
       IN  Called("turnOn", <<>>, s4)
    /\ KeepStored
    /\ KeepOff

\* PCA9532::turnOff
turnOffWriteFirst(Avail) ==
    /\ budget > 0
    /\ \E a0 \in Avail, a1 \in Avail, a2 \in Avail, a3 \in Avail :
        LET w0 == writeReg(Start, REG_LS0, LS_STATE_OFF)
            r0 == readXfer(w0, REG_LS0, a0)
            w1 == writeReg(r0, REG_LS1, LS_STATE_OFF)
            r1 == readXfer(w1, REG_LS1, a1)
            w2 == writeReg(r1, REG_LS2, LS_STATE_OFF)
            r2 == readXfer(w2, REG_LS2, a2)
            w3 == writeReg(r2, REG_LS3, LS_STATE_OFF)
            r3 == readXfer(w3, REG_LS3, a3)
        IN  /\ storedRegLs0' = LastRet(r0)
            /\ storedRegLs1' = LastRet(r1)
            /\ storedRegLs2' = LastRet(r2)
            /\ storedRegLs3' = LastRet(r3)
            /\ Called("turnOff", <<>>, r3)
            /\ readAtOff' = Rets(r3.bus)
            /\ lsAtOff' = LsOf(regs)
            /\ lsAtOffPrev' = lsAtOff

turnOffKeepLit(Avail) ==
    /\ budget > 0
    /\ \E a0 \in Avail, a1 \in Avail, a2 \in Avail, a3 \in Avail :
        LET r0 == readXfer(Start, REG_LS0, a0)
            w0 == writeReg(r0, REG_LS0, LS_STATE_OFF)
            r1 == readXfer(w0, REG_LS1, a1)
            w1 == writeReg(r1, REG_LS1, LS_STATE_OFF)
            r2 == readXfer(w1, REG_LS2, a2)
            w2 == writeReg(r2, REG_LS2, LS_STATE_OFF)
            r3 == readXfer(w2, REG_LS3, a3)
            w3 == writeReg(r3, REG_LS3, LS_STATE_OFF)
            Keep(old, new) == IF new = LS_STATE_OFF THEN old ELSE new
        IN  /\ storedRegLs0' = Keep(storedRegLs0, LastRet(r0))
            /\ storedRegLs1' = Keep(storedRegLs1, LastRet(r1))
            /\ storedRegLs2' = Keep(storedRegLs2, LastRet(r2))
            /\ storedRegLs3' = Keep(storedRegLs3, LastRet(r3))
            /\ Called("turnOff", <<>>, w3)
            /\ readAtOff' = Rets(w3.bus)
            /\ lsAtOff' = LsOf(regs)
            /\ lsAtOffPrev' = lsAtOff

turnOff(Avail) ==
    /\ budget > 0
    /\ \E a0 \in Avail, a1 \in Avail, a2 \in Avail, a3 \in Avail :
        LET r0 == readXfer(Start, REG_LS0, a0)
            w0 == writeReg(r0, REG_LS0, LS_STATE_OFF)
            r1 == readXfer(w0, REG_LS1, a1)
            w1 == writeReg(r1, REG_LS1, LS_STATE_OFF)
            r2 == readXfer(w1, REG_LS2, a2)
            w2 == writeReg(r2, REG_LS2, LS_STATE_OFF)
            r3 == readXfer(w2, REG_LS3, a3)
            w3 == writeReg(r3, REG_LS3, LS_STATE_OFF)
        IN  /\ storedRegLs0' = LastRet(r0)
            /\ storedRegLs1' = LastRet(r1)
            /\ storedRegLs2' = LastRet(r2)
            /\ storedRegLs3' = LastRet(r3)
            /\ Called("turnOff", <<>>, w3)
            /\ readAtOff' = Rets(w3.bus)
            /\ lsAtOff' = LsOf(regs)
            /\ lsAtOffPrev' = lsAtOff

\* PCA9532::setPwm
setPwm(RegArgs, Pwms) ==
    /\ budget > 0
    /\ \E regPwm \in RegArgs, pwm \in Pwms :
        Called("setPwm", <<regPwm, pwm>>, writeReg(Start, regPwm, pwm))
    /\ KeepStored
    /\ KeepOff

\* PCA9532::setGrpPwm
setGrpPwmTwice0(Pwms) ==
    /\ budget > 0
    /\ \E pwm \in Pwms :
        LET s1 == writeReg(Start, REG_PWM0, pwm)
            s2 == writeReg(s1, REG_PWM0, pwm)
        IN  Called("setGrpPwm", <<pwm>>, s2)
    /\ KeepStored
    /\ KeepOff

setGrpPwm(Pwms) ==
    /\ budget > 0
    /\ \E pwm \in Pwms :
        LET s1 == writeReg(Start, REG_PWM0, pwm)
            s2 == writeReg(s1, REG_PWM1, pwm)
        IN  Called("setGrpPwm", <<pwm>>, s2)
    /\ KeepStored
    /\ KeepOff

\* PCA9532::setBlinking
setBlinking(RegArgs, Periods) ==
    /\ budget > 0
    /\ \E regPsc \in RegArgs, blinkPeriod \in Periods :
        Called("setBlinking", <<regPsc, blinkPeriod>>,
               writeReg(Start, regPsc, blinkPeriod))
    /\ KeepStored
    /\ KeepOff

\* PCA9532::setLsState, lines 120-122: the byte written back
newRegWideMask(prevReg, state, lsBit) ==
    LET cleared == ToU8(BitAnd(prevReg, BitNot(Shl(7, lsBit))))
    IN  ToU8(BitOr(cleared, Shl(state, lsBit)))

newReg(prevReg, state, lsBit) ==
    LET cleared == ToU8(BitAnd(prevReg, BitNot(Shl(3, lsBit))))
    IN  ToU8(BitOr(cleared, Shl(state, lsBit)))

\* PCA9532::setLsState
setLsState(States, RegArgs, Bits, Avail) ==
    /\ budget > 0
    /\ \E state \in States, regLs \in RegArgs, lsBit \in Bits, avail \in Avail :
        LET r == readXfer(Start, regLs, avail)
            prevReg == LastRet(r)
        IN  Called("setLsState", <<state, regLs, lsBit>>,
                   writeReg(r, regLs, newReg(prevReg, state, lsBit)))
    /\ KeepStored
    /\ KeepOff

\* PCA9532::setLsStateAll, lines 138-141 (and 145-162): the byte written
lsAllByteNoLed3(state) ==
    ToU8(BitOr(BitOr(Shl(state, BIT_LS_LED2), Shl(state, BIT_LS_LED2)),
               BitOr(Shl(state, BIT_LS_LED1), Shl(state, BIT_LS_LED0))))

lsAllByte(state) ==
    ToU8(BitOr(BitOr(Shl(state, BIT_LS_LED3), Shl(state, BIT_LS_LED2)),
               BitOr(Shl(state, BIT_LS_LED1), Shl(state, BIT_LS_LED0))))

\* PCA9532::setLsStateAll
setLsStateAllCached(States) ==
    /\ budget > 0
    /\ \E state \in States :
        LET s1 == writeReg(Start, REG_LS0, lsAllByte(state))
            s2 == writeReg(s1, REG_LS1, lsAllByte(state))
            s3 == writeReg(s2, REG_LS2, lsAllByte(state))
            s4 == writeReg(s3, REG_LS3, lsAllByte(state))
        IN  /\ Called("setLsStateAll", <<state>>, s4)
            /\ storedRegLs0' = lsAllByte(state)
            /\ storedRegLs1' = lsAllByte(state)
            /\ storedRegLs2' = lsAllByte(state)
            /\ storedRegLs3' = lsAllByte(state)
    /\ KeepOff

setLsStateAll(States) ==
    /\ budget > 0
    /\ \E state \in States :
        LET s1 == writeReg(Start, REG_LS0, lsAllByte(state))
            s2 == writeReg(s1, REG_LS1, lsAllByte(state))
            s3 == writeReg(s2, REG_LS2, lsAllByte(state))
            s4 == writeReg(s3, REG_LS3, lsAllByte(state))
        IN  Called("setLsStateAll", <<state>>, s4)
    /\ KeepStored
    /\ KeepOff

---------------------------------------------------------------------------
(* Construction.  The constructor sets _regPwm1 and _regPwm2 only: the four *)
(* saved bytes are whatever the storage of the object holds, zero for an    *)
(* object of static storage duration and indeterminate otherwise.           *)

Handle(ls, st, n) ==
    /\ regs = [a \in Regs |-> IF a >= REG_LS0 THEN ls[a - REG_LS0 + 1] ELSE 0]
    /\ storedRegLs0 = st[1]
    /\ storedRegLs1 = st[2]
    /\ storedRegLs2 = st[3]
    /\ storedRegLs3 = st[4]
    /\ bus = <<>>
    /\ op = [name |-> "begin", args |-> <<>>]
    /\ trail = <<>>
    /\ readAtOff = <<>>
    /\ lsAtOff = <<>>
    /\ lsAtOffPrev = <<>>
    /\ budget = n

\* Specification Spec: sequences of MaxOps calls, arguments from small sets.
SomeLs == {<<0, 0, 0, 0>>, <<27, 228, 255, 85>>}
SomeStored == {<<0, 0, 0, 0>>, <<165, 90, 255, 1>>}
SomePwm == {128}
SomeAvail == {0, 1}

Init == \E ls \in SomeLs, st \in SomeStored : Handle(ls, st, MaxOps)

Next ==
    \/ turnOn
    \/ turnOff(SomeAvail)
    \/ setPwm({REG_PWM0, REG_LS3 + 1}, SomePwm)
    \/ setGrpPwm(SomePwm)
    \/ setBlinking({REG_PSC1}, {BLINKING_PERIOD_1_S})
    \/ setLsState({LS_STATE_BLNK0}, {REG_LS0, REG_LS2},
                  {BIT_LS_LED0, BIT_LS_LED3}, SomeAvail)
    \/ setLsStateAll({LS_STATE_ON, LS_STATE_BLNK1})

Spec == Init /\ [][Next]_vars

\* Specification SpecCall: one call, on every byte.
AnyAvail == 0 .. MaxAvail

InitCall ==
    \E b \in Byte :
        Handle(<<b, ToU8(b + 85), ToU8(b + 170), ToU8(-1 - b)>>,
               <<ToU8(b + 1), ToU8(2 * b), 0, b>>, 1)

NextCall ==
    \/ turnOn
    \/ turnOff(AnyAvail)
    \/ setPwm({REG_PWM0, REG_PWM1}, SomePwm)
    \/ setGrpPwm(Byte)
    \/ setBlinking({REG_PSC0, REG_PSC1}, {BLINKING_PERIOD_1_S})
    \/ setLsState(LsStates, {REG_LS0, REG_LS1, REG_LS2, REG_LS3}, LsBits,
                  AnyAvail)
    \/ setLsStateAll(LsStates)

SpecCall == InitCall /\ [][NextCall]_vars

---------------------------------------------------------------------------
(* Vocabulary of the properties *)

\* The 2-bit channel field of byte v at bit offset o, by arithmetic.
Field(v, o) == (v \div 2^o) % 4

Zeros == <<0, 0, 0, 0>>

\* The four writes that put bytes v[1..4] into LS0..LS3, in that order.
LsWrites(v) == [i \in 1 .. 4 |-> W(LsRegs[i], v[i])]

Nth(k) == trail[Len(trail) + 1 - k]        \* k-th most recent call
OffDone == \E i \in 1 .. Len(trail) : trail[i].name = "turnOff"

\* The register-address arguments of a call.
AddrArgs(o) ==
    CASE o.name \in {"setPwm", "setBlinking"} -> {o.args[1]}
      [] o.name = "setLsState" -> {o.args[2]}
      [] OTHER -> {}

---------------------------------------------------------------------------
(* Properties *)

\* C1: setLsState, when its read succeeds, issues exactly one write, to the
\* register it was given; the 2-bit field at the offset holds the state and
\* the other three fields are those of the byte the register held.
C1_SetLsStatePreservesOthers ==
    [][ (op'.name = "setLsState" /\ AllReadsOk(bus')) =>
          LET state == op'.args[1]
              reg   == op'.args[2]
              off   == op'.args[3]
              ws    == Writes(bus')
          IN  /\ Len(ws) = 1
              /\ ws[1].addr = reg
              /\ Field(ws[1].data, off) = state
              /\ \A o \in LsBits \ {off} :
                    Field(ws[1].data, o) = Field(regs[reg], o)
              /\ ws[1].data \in Byte ]_vars

\* C1 witness: setLsState(ON, LS0, 0) on LS0 = 0 wrote 0b00000001 to 0x06.
C1_Witness ==
    /\ op = [name |-> "setLsState", args |-> <<LS_STATE_ON, REG_LS0, 0>>]
    /\ bus = <<R(6, 1, 0, 0), W(6, 1)>>

\* C2: turnOff with all reads succeeding, followed at once by turnOn,
\* leaves LS0..LS3 as they were when turnOff began.
C2_OffOnRoundTrip ==
    ( /\ Len(trail) >= 2
      /\ Nth(1).name = "turnOn"
      /\ Nth(2) = [name |-> "turnOff", ok |-> TRUE] )
    => LsOf(regs) = lsAtOff

\* C2 witness: a lit pattern came back after turnOff; turnOn.
C2_Witness ==
    /\ Len(trail) >= 2
    /\ Nth(1).name = "turnOn"
    /\ Nth(2) = [name |-> "turnOff", ok |-> TRUE]
    /\ lsAtOff = <<27, 228, 255, 85>>
    /\ LsOf(regs) = lsAtOff

\* C3: turnOff; turnOff; turnOn with all reads succeeding ends with
\* LS0..LS3 all 0x00: the second turnOff saved four zero bytes and turnOn
\* wrote them.
C3_DoubleOffLosesPattern ==
    ( /\ Len(trail) >= 3
      /\ Nth(1).name = "turnOn"
      /\ Nth(2) = [name |-> "turnOff", ok |-> TRUE]
      /\ Nth(3) = [name |-> "turnOff", ok |-> TRUE] )
    => /\ LsOf(regs) = Zeros
       /\ stored = Zeros
       /\ bus = LsWrites(Zeros)

\* C3 witness: the pattern lit before the first turnOff is gone.
C3_Witness ==
    /\ Len(trail) >= 3
    /\ Nth(1).name = "turnOn"
    /\ Nth(2) = [name |-> "turnOff", ok |-> TRUE]
    /\ Nth(3) = [name |-> "turnOff", ok |-> TRUE]
    /\ lsAtOffPrev = <<27, 228, 255, 85>>
    /\ LsOf(regs) = Zeros

\* C4: turnOn on a handle on which turnOff was never called writes 0x00 to
\* each of LS0, LS1, LS2 and LS3.
C4_OnBeforeOffWritesZeros ==
    (op.name = "turnOn" /\ ~OffDone) => bus = LsWrites(Zeros)

\* C5: setLsStateAll reads nothing and writes LS0, LS1, LS2, LS3 in that
\* order, each with state + 4*state + 16*state + 64*state.
C5_SetLsStateAllBlindOverwrite ==
    op.name = "setLsStateAll" =>
        LET state == op.args[1]
            byte  == state + 4 * state + 16 * state + 64 * state
        IN  bus = LsWrites(<<byte, byte, byte, byte>>)

\* C5 witness: setLsStateAll(BLNK1) wrote 0xFF to 0x06..0x09.
C5_Witness ==
    /\ op = [name |-> "setLsStateAll", args |-> <<LS_STATE_BLNK1>>]
    /\ bus = <<W(6, 255), W(7, 255), W(8, 255), W(9, 255)>>

\* C6 as claimed: every register address the driver sends, whatever the
\* arguments, is one of 0x00..0x09.
C6_EveryAddressInMap == \A i \in 1 .. Len(bus) : bus[i].addr \in 0 .. 9

\* C6 as amended: a call whose register-address arguments (if it has any)
\* are within 0x00..0x09 sends only addresses within 0x00..0x09, and every
\* call sends only its address arguments or PWM0, PWM1, LS0..LS3.
C6_AddressInMapIfArgsAre ==
    /\ (AddrArgs(op) \subseteq 0 .. 9) =>
            \A i \in 1 .. Len(bus) : bus[i].addr \in 0 .. 9
    /\ \A i \in 1 .. Len(bus) :
            bus[i].addr \in AddrArgs(op) \cup {3, 5, 6, 7, 8, 9}

\* C6 witness: setPwm on PWM0 wrote to 0x03.
C6_Witness ==
    /\ op.name = "setPwm"
    /\ op.args[1] = REG_PWM0
    /\ bus = <<W(3, op.args[2])>>

\* C7: setGrpPwm(v) writes v to PWM0 and then v to PWM1 and nothing else;
\* both registers then hold v, the other registers and the saved bytes are
\* as before.
C7_SetGrpPwmBoth ==
    [][ op'.name = "setGrpPwm" =>
          LET v == op'.args[1]
          IN  /\ bus' = <<W(3, v), W(5, v)>>
              /\ regs'[3] = v /\ regs'[5] = v
              /\ \A a \in Regs \ {3, 5} : regs'[a] = regs[a]
              /\ stored' = stored ]_vars

\* C7 witness: setGrpPwm(200) left 200 in PWM0 and PWM1.
C7_Witness ==
    /\ op = [name |-> "setGrpPwm", args |-> <<200>>]
    /\ regs[REG_PWM0] = 200
    /\ regs[REG_PWM1] = 200

\* C8: readReg returns the received byte when exactly one byte is
\* available and 0xFF in every other case.
C8_ReadRegResult ==
    \A i \in 1 .. Len(bus) :
        bus[i].kind = "r" =>
            bus[i].ret = (IF bus[i].avail = 1 THEN bus[i].rx ELSE 255)

\* C8 witness: one call saw 0xFF from a read with no byte, from a read
\* with two bytes, and from a successful read of a register holding 0xFF.
C8_Witness ==
    \E i, j, k \in 1 .. Len(bus) :
        /\ bus[i].kind = "r" /\ bus[j].kind = "r" /\ bus[k].kind = "r"
        /\ bus[i].avail = 0 /\ bus[i].rx # 255 /\ bus[i].ret = 255
        /\ bus[j].avail = 2 /\ bus[j].rx # 255 /\ bus[j].ret = 255
        /\ bus[k].avail = 1 /\ bus[k].rx = 255 /\ bus[k].ret = 255

\* C9: setLsState whose read yields no byte still issues its one write
\* after the one read; the field at the offset holds the state and the
\* other three fields are 0b11.
C9_SetLsStateAfterFailedRead ==
    (op.name = "setLsState" /\ ~AllReadsOk(bus)) =>
        LET state == op.args[1]
            reg   == op.args[2]
            off   == op.args[3]
        IN  /\ Len(bus) = 2
            /\ bus[1].kind = "r" /\ bus[1].addr = reg
            /\ bus[2].kind = "w" /\ bus[2].addr = reg
            /\ Field(bus[2].data, off) = state
            /\ \A o \in LsBits \ {off} : Field(bus[2].data, o) = 3

\* C9 witness: setLsState(OFF, LS1, 2) with no byte read, LS1 holding 0x55,
\* wrote 0b11110011.
C9_Witness ==
    /\ op = [name |-> "setLsState", args |-> <<LS_STATE_OFF, REG_LS1, 2>>]
    /\ bus = <<R(7, 0, 85, 255), W(7, 243)>>

\* C10: only turnOff changes the saved bytes; a turnOn made after a
\* turnOff writes to LS0..LS3 the four bytes the latest turnOff read, and
\* a turnOn that follows a turnOn issues the same writes.
C10_SavedOnlyByTurnOff ==
    [][ /\ op'.name # "turnOff" => stored' = stored
        /\ (op'.name = "turnOn" /\ OffDone') => bus' = LsWrites(readAtOff')
        /\ (op.name = "turnOn" /\ op'.name = "turnOn") => bus' = bus ]_vars

\* C10 witness: turnOn after turnOff; setLsStateAll put back the pattern
\* turnOff read and dropped what setLsStateAll wrote.
C10_Witness ==
    /\ Len(trail) = 3
    /\ Nth(3) = [name |-> "turnOff", ok |-> TRUE]
    /\ Nth(2).name = "setLsStateAll"
    /\ Nth(1).name = "turnOn"
    /\ readAtOff = <<27, 228, 255, 85>>
    /\ LsOf(regs) = readAtOff

=============================================================================
